---------------------------- MODULE Spec2Model ----------------------------
(***************************************************************************)
(* A model of snl (Simple Networking Library, src/src/snl.hpp) and of the  *)
(* parts of the shop server that use it.                                   *)
(*                                                                         *)
(* Each piece has its own specification over the shared variable list:     *)
(*   SpecWire     - connection::send / detail::recv over one TCP stream    *)
(*   SpecPoll     - connection::try_recv on that stream                    *)
(*   SpecIter     - connection_iterator on that stream                     *)
(*   SpecLock     - sync::safe<T> / sync::lock<T>                          *)
(*   SpecLockFair - the same under fair scheduling                         *)
(*   SpecServe    - the accept loop of serve() and its threads             *)
(*   SpecConnect  - connect()                                              *)
(*   SpecParser   - message_parser_builder and message_parser::parse       *)
(*   SpecShop     - the sessions of the shop server (server.cpp)           *)
(*   SpecRaw      - detail::recv in a session whose peer writes raw bytes  *)
(* A specification leaves the variables of the other pieces unchanged.     *)
(***************************************************************************)
EXTENDS Integers, Sequences, FiniteSets, TLC

VARIABLES
    \* ---- the stream from the sending end to the receiving end ----
    wire,           \* bytes written by ::send and not yet taken by ::recv
    send_pc,        \* "idle" | "payload" | "error" | "closed"
    send_data,      \* the argument of the connection::send in progress
    send_remaining, \* connection::send's local `remaining`
    send_p,         \* connection::send's local `p`, as an offset into data
    sent,           \* history: the payloads passed to connection::send
    recv_pc,        \* "idle" | "payload" | "failed"
    recv_remaining, \* detail::recv's local `remaining`
    recv_string,    \* detail::recv's local `string`
    recv_data,      \* detail::recv's local `data`, as an offset into string
    recv_exc,       \* the exception that ended detail::recv, or "none"
    recv_ret,       \* {} or {r}: the value the last ::recv call returned
    recv_short,     \* history: a payload ::recv returned less than asked
    recvd           \* history: the strings detail::recv has returned

wireVars == <<wire, send_pc, send_data, send_remaining, send_p, sent,
              recv_pc, recv_remaining, recv_string, recv_data, recv_exc,
              recv_ret, recv_short, recvd>>

VARIABLES
    \* ---- one sync::safe<T> shared by the execution units ----
    mtx,            \* safe::mtx: {} when unlocked, {u} when unit u owns it
    safe_data,      \* safe::data, the wrapped value (a counter here)
    guards,         \* the units whose sync::lock<T> object is live
    unit_pc,        \* per unit: "out" | "blocked" | "read" | "write" | "leave"
    unit_local,     \* per unit: the value it read through the guard
    unit_done,      \* per unit: how many critical sections it has ended
    last_exit       \* history: how the last critical section was left

lockVars == <<mtx, safe_data, guards, unit_pc, unit_local, unit_done,
              last_exit>>

VARIABLES
    \* ---- serve() ----
    serve_pc,       \* "setup" | "accepting" | "threw" | "returned" |
                    \* "terminated"; "threw" is unknown_connection_exception
    handler,        \* serve's parameter `handler`: "target" | "empty"
    threads,        \* serve's `threads`: one record per spawned thread
    accept_failed,  \* whether the last accept call returned -1
    setup_calls     \* history: what the calls of the setup did, in order

serveVars == <<serve_pc, handler, threads, accept_failed, setup_calls>>

VARIABLES
    \* ---- message_parser_builder ----
    b_pc,            \* "building" | "aborted" | "built"
    b_commands,      \* message_parser_builder::commands
    current_command, \* {} for nullptr, {name} for &commands[name]
    b_call,          \* the last builder call: [op, arg]
    b_tick,          \* flips at every builder call
    \* ---- message_parser ----
    p_commands,      \* message_parser::commands
    p_pc,            \* "none" | "ready" | "parsed"
    p_line,          \* the argument of the last parse
    p_exc,           \* what the last parse threw: [type, what]
    p_invoked        \* the handler calls of the last parse:
                     \* [command, handler, args], command being the key of
                     \* the map element whose handler was called

parserVars == <<b_pc, b_commands, current_command, b_call, b_tick,
                p_commands, p_pc, p_line, p_exc, p_invoked>>

VARIABLES
    \* ---- connect() ----
    c_pc,           \* "start" | "loop" | "connected" | "in_handler" |
                    \* "closing" | "returned" | "threw" | "propagated";
                    \* "threw" is unknown_connection_exception, "propagated"
                    \* an exception of the handler that connect lets through
    c_res,          \* the addrinfo list from `r` on: what socket and
                    \* ::connect will do for each address
    c_sockfd,       \* connect's `sockfd`: 0 before the first socket call
    c_open,         \* the descriptors socket returned and close has not had
    c_invocations,  \* history: how many times handler(conn) was called
    c_exit          \* history: how the handler call ended

connectVars == <<c_pc, c_res, c_sockfd, c_open, c_invocations, c_exit>>

VARIABLES
    \* ---- connection::try_recv on the receiving end ----
    t_pc,           \* "out" | "receiving": outside try_recv, or in its recv()
    t_ready,        \* history: what the last select call returned
    t_base,         \* history: how many strings detail::recv had returned
                    \* when the last try_recv was called
    t_result,       \* what the last try_recv gave its caller: [kind, value]
    t_calls         \* how many times try_recv was called

pollVars == <<t_pc, t_ready, t_base, t_result, t_calls>>

VARIABLES
    \* ---- connection_iterator on the receiving end ----
    it_pc,          \* "none" | "incrementing" | "ready" | "ended" |
                    \* "propagated": no iterator yet, inside operator++,
                    \* between operator++ and the loop's test, after a loop
                    \* test that found it == end, after an exception left ++
    current_value,  \* connection_iterator::current_value
    it_base,        \* history: how many strings detail::recv had returned
                    \* when the operator++ in progress was called
    it_exc,         \* the exception that left operator++
    yielded         \* history: the values operator* gave the loop body

iterVars == <<it_pc, current_value, it_base, it_exc, yielded>>

VARIABLES
    \* ---- the shop server: main() of server.cpp ----
    shop_pc,        \* "unloaded" | "serving" | "aborted"
    items,          \* shop::items
    users,          \* shop::users
    s_pc,           \* per session: "recv" | "blocked" | "locked" | "check" |
                    \* "deduct" | "sent" | "ended"
    s_msg,          \* per session: the message being handled
    s_call,         \* per session: the handler call parse made:
                    \* <<>> or <<[command, handler, args]>>
    s_count,        \* per session: the buy handler's `count`
    s_cost,         \* per session: the buy handler's `cost`
    s_sent,         \* per session: the frames sent since the message being
                    \* handled was received
    requests,       \* history: how many messages the sessions have received
    purchases       \* history: the costs deducted, in order

shopVars == <<shop_pc, items, users, s_pc, s_msg, s_call, s_count, s_cost,
              s_sent, requests, purchases>>

VARIABLES
    \* ---- a session of serve() whose peer writes what it likes ----
    raw_frames,     \* how many frames the peer has written
    raw_session     \* "in_handler" | "closed" | "terminated": the handler
                    \* runs, the thread has closed the descriptor after the
                    \* handler, or std::terminate was called

rawVars == <<raw_frames, raw_session>>

vars == <<wireVars, lockVars, serveVars, parserVars, connectVars, pollVars,
          iterVars, shopVars, rawVars>>

notWire == <<lockVars, serveVars, parserVars, connectVars, pollVars,
             iterVars, shopVars, rawVars>>
notLock == <<wireVars, serveVars, parserVars, connectVars, pollVars,
             iterVars, shopVars, rawVars>>
notServe == <<wireVars, lockVars, parserVars, connectVars, pollVars,
              iterVars, shopVars, rawVars>>
notParser == <<wireVars, lockVars, serveVars, connectVars, pollVars,
               iterVars, shopVars, rawVars>>
notConnect == <<wireVars, lockVars, serveVars, parserVars, pollVars,
                iterVars, shopVars, rawVars>>
notPoll == <<wireVars, lockVars, serveVars, parserVars, connectVars,
             iterVars, shopVars, rawVars>>
notIter == <<wireVars, lockVars, serveVars, parserVars, connectVars,
             pollVars, shopVars, rawVars>>
notShop == <<wireVars, lockVars, serveVars, parserVars, connectVars,
             pollVars, iterVars, rawVars>>
notRaw == <<wireVars, lockVars, serveVars, parserVars, connectVars,
            pollVars, iterVars, shopVars>>
notWirePoll == <<lockVars, serveVars, parserVars, connectVars, iterVars,
                 shopVars, rawVars>>
notWireIter == <<lockVars, serveVars, parserVars, connectVars, pollVars,
                 shopVars, rawVars>>
notLockShop == <<wireVars, serveVars, parserVars, connectVars, pollVars,
                 iterVars, rawVars>>
notWireRaw == <<lockVars, serveVars, parserVars, connectVars, pollVars,
                iterVars, shopVars>>

----------------------------------------------------------------------------
(* Bounds of the model *)

\* the longest payload passed to connection::send
MaxLen == 2
\* how many times connection::send is called on the sending end
MaxMsgs == 2

(* Program constants *)

\* constexpr size_t CHUNK_SIZE = 1024;
CHUNK_SIZE == 1024
\* sizeof(remaining), remaining being an int
SizeofInt == 4

\* the byte values payloads are drawn from; 1 and 2 are also the low bytes
\* of length prefixes, so a payload can look like a prefix
PayloadBytes == {1, 2}

Min(a, b) == IF a < b THEN a ELSE b

Take(s, k) == SubSeq(s, 1, k)
Drop(s, k) == SubSeq(s, k + 1, Len(s))

SeqsUpTo(S, n) == UNION {[1..k -> S] : k \in 0..n}

Payloads == SeqsUpTo(PayloadBytes, MaxLen)

----------------------------------------------------------------------------
(* The length prefix: an int in the machine's byte order (little endian),  *)
(* written by ::send(fd, &remaining, sizeof(remaining), 0) and read back   *)
(* by ::recv(fd, &remaining, sizeof(remaining), 0).                        *)

\* the object representation of an int n with 0 <= n < 2^31
IntBytes(n) ==
    << n % 256, (n \div 256) % 256, (n \div 65536) % 256,
       (n \div 16777216) % 256 >>

\* the int whose object representation is b (two's complement)
BytesInt(b) ==
    b[1] + 256 * b[2] + 65536 * b[3]
      + 16777216 * (IF b[4] >= 128 THEN b[4] - 256 ELSE b[4])

----------------------------------------------------------------------------
(* The transport.  ::send(fd, buf, n) takes k of the n bytes, 1 <= k <= n, *)
(* or fails with -1.  ::recv(fd, buf, n) blocks while nothing is in flight *)
(* and the peer is open; it returns k bytes, 1 <= k <= min(n, in flight),  *)
(* 0 once the peer has closed and everything was read, or -1.              *)

SysSendReturns(n) == {-1} \cup (1..n)

SysRecvReturns(n) ==
    {-1} \cup (IF Len(wire) > 0 THEN 1..Min(n, Len(wire))
               ELSE IF send_pc = "closed" THEN {0} ELSE {})

----------------------------------------------------------------------------
(* connection::send *)

\* first statement to the first ::send: the length prefix
Send(data) ==
    /\ send_pc = "idle"
    /\ Len(sent) < MaxMsgs
    /\ sent' = Append(sent, data)
    /\ \E ret \in SysSendReturns(SizeofInt) :
         LET remaining == Len(data) IN
         /\ wire' = wire \o (IF ret = -1 THEN <<>>
                             ELSE Take(IntBytes(remaining), ret))
         /\ IF ret # SizeofInt
              THEN /\ send_pc' = "error"
                   /\ UNCHANGED <<send_data, send_remaining, send_p>>
              ELSE /\ send_data' = data
                   /\ send_remaining' = remaining
                   /\ send_p' = 0
                   /\ send_pc' = IF remaining > 0 THEN "payload" ELSE "idle"
    /\ UNCHANGED <<recv_pc, recv_remaining, recv_string, recv_data, recv_exc,
                   recv_ret, recv_short, recvd>>
    /\ UNCHANGED notWire

\* one turn of the while (remaining > 0) loop
SendChunk ==
    /\ send_pc = "payload"
    /\ \E ret \in SysSendReturns(send_remaining) :
         IF ret = -1
           THEN /\ send_pc' = "error"
                /\ UNCHANGED <<wire, send_remaining, send_p>>
           ELSE /\ wire' = wire \o SubSeq(send_data, send_p + 1, send_p + ret)
                /\ send_remaining' = send_remaining - ret
                /\ send_p' = send_p + ret
                /\ send_pc' = IF send_remaining - ret > 0 THEN "payload"
                              ELSE "idle"
    /\ UNCHANGED <<send_data, sent, recv_pc, recv_remaining, recv_string,
                   recv_data, recv_exc, recv_ret, recv_short, recvd>>
    /\ UNCHANGED notWire

\* the sending end closes its handle (close(fd) after the handler, or the
\* process ends): at any point, also in the middle of a send
PeerClose ==
    /\ send_pc # "closed"
    /\ send_pc' = "closed"
    /\ UNCHANGED <<wire, send_data, send_remaining, send_p, sent, recv_pc,
                   recv_remaining, recv_string, recv_data, recv_exc, recv_ret,
                   recv_short, recvd>>
    /\ UNCHANGED notWire

----------------------------------------------------------------------------
(* detail::recv *)

\* variant of PrefixThrow: a zero return taken for an error
PrefixThrowMutant(ret) ==
    IF ret = 0 THEN "unknown_connection_exception"
    ELSE IF ret # SizeofInt THEN "unknown_connection_exception"
    ELSE "none"

\* lines 74-77: what the return value of the prefix read throws
PrefixThrow(ret) ==
    IF ret = 0 THEN "connection_closed_exception"
    ELSE IF ret # SizeofInt THEN "unknown_connection_exception"
    ELSE "none"

\* variant of ChunkThrow: a zero return taken for an error
ChunkThrowMutant(recv) ==
    IF recv = 0 THEN "unknown_connection_exception"
    ELSE IF recv = -1 THEN "unknown_connection_exception"
    ELSE "none"

\* lines 83-86: what the return value of a payload read throws
ChunkThrow(recv) ==
    IF recv = 0 THEN "connection_closed_exception"
    ELSE IF recv = -1 THEN "unknown_connection_exception"
    ELSE "none"

\* string.resize(remaining): remaining converts to size_t, so a negative
\* value asks for more than max_size() and resize throws std::length_error
ResizeThrow(remaining) ==
    IF remaining < 0 THEN "length_error" ELSE "none"

\* the value-initialised characters resize() appends
Resized(remaining) == [i \in 1..remaining |-> 0]

\* variant of StoreAt: data is never advanced
StoreAtMutant(string, data, bytes) ==
    [i \in 1..Len(string) |->
        IF i <= Len(bytes) THEN bytes[i] ELSE string[i]]

\* ::recv stores `bytes` at data; data += recv is the caller's
StoreAt(string, data, bytes) ==
    [i \in 1..Len(string) |->
        IF data < i /\ i <= data + Len(bytes) THEN bytes[i - data]
        ELSE string[i]]

\* variant of ChunkRequest: a whole chunk is asked for every time
ChunkRequestMutant(remaining) == CHUNK_SIZE

\* how many bytes a payload read asks for
ChunkRequest(remaining) == Min(CHUNK_SIZE, remaining)

\* first statement to the first turn of the loop (or to the return)
Recv ==
    /\ recv_pc = "idle"
    /\ \E ret \in SysRecvReturns(SizeofInt) :
         LET got       == IF ret > 0 THEN Take(wire, ret) ELSE <<>>
             remaining == BytesInt(got)
             exc       == IF PrefixThrow(ret) # "none" THEN PrefixThrow(ret)
                          ELSE ResizeThrow(remaining)
         IN
         /\ recv_ret' = {ret}
         /\ wire' = IF ret > 0 THEN Drop(wire, ret) ELSE wire
         /\ IF exc # "none"
              THEN /\ recv_pc' = "failed"
                   /\ recv_exc' = exc
                   /\ UNCHANGED <<recv_remaining, recv_string, recv_data,
                                  recvd>>
              ELSE /\ recv_remaining' = remaining
                   /\ recv_string' = Resized(remaining)
                   /\ recv_data' = 0
                   /\ recv_exc' = "none"
                   /\ IF remaining > 0
                        THEN recv_pc' = "payload" /\ UNCHANGED recvd
                        ELSE /\ recv_pc' = "idle"
                             /\ recvd' = Append(recvd, Resized(remaining))
    /\ UNCHANGED <<send_pc, send_data, send_remaining, send_p, sent,
                   recv_short>>
    /\ UNCHANGED notWire

\* one turn of the while (remaining > 0) loop
RecvChunk ==
    /\ recv_pc = "payload"
    /\ \E recv \in SysRecvReturns(ChunkRequest(recv_remaining)) :
         LET exc == ChunkThrow(recv) IN
         /\ recv_ret' = {recv}
         /\ IF exc # "none"
              THEN /\ recv_pc' = "failed"
                   /\ recv_exc' = exc
                   /\ UNCHANGED <<wire, recv_remaining, recv_string,
                                  recv_data, recv_short, recvd>>
              ELSE LET string == StoreAt(recv_string, recv_data,
                                         Take(wire, recv))
                   IN
                   /\ wire' = Drop(wire, recv)
                   /\ recv_string' = string
                   /\ recv_remaining' = recv_remaining - recv
                   /\ recv_data' = recv_data + recv
                   /\ recv_short' = (recv_short
                                       \/ recv < ChunkRequest(recv_remaining))
                   /\ recv_exc' = "none"
                   /\ IF recv_remaining - recv > 0
                        THEN recv_pc' = "payload" /\ UNCHANGED recvd
                        ELSE /\ recv_pc' = "idle"
                             /\ recvd' = Append(recvd, string)
    /\ UNCHANGED <<send_pc, send_data, send_remaining, send_p, sent>>
    /\ UNCHANGED notWire

WireInit ==
    /\ wire = <<>>
    /\ send_pc = "idle"
    /\ send_data = <<>>
    /\ send_remaining = 0
    /\ send_p = 0
    /\ sent = <<>>
    /\ recv_pc = "idle"
    /\ recv_remaining = 0
    /\ recv_string = <<>>
    /\ recv_data = 0
    /\ recv_exc = "none"
    /\ recv_ret = {}
    /\ recv_short = FALSE
    /\ recvd = <<>>

WireNext ==
    \/ \E data \in Payloads : Send(data)
    \/ SendChunk
    \/ PeerClose
    \/ Recv
    \/ RecvChunk

----------------------------------------------------------------------------
(* sync::safe<T> and sync::lock<T>.  safe::lock() constructs a lock<T>,    *)
(* whose member std::lock_guard<std::mutex> guard(mtx) locks mtx in its    *)
(* constructor, blocking while another thread owns it, and unlocks it in   *)
(* its destructor.  T is a counter that a critical section reads and then  *)
(* writes through the guard (lock::operator->).                            *)

\* the execution units that call lock()
NumUnits == 3
\* how many critical sections one unit runs
MaxSections == 1

Units == 1..NumUnits

\* variant of MutexLockReturns: the constructor does not wait
MutexLockReturnsMutant == TRUE

\* std::mutex::lock() returns only when no thread owns the mutex
MutexLockReturns == mtx = {}

\* safe::lock() is called: the unit is inside lock_guard's constructor
CallLock(u) ==
    /\ unit_pc[u] = "out"
    /\ unit_done[u] < MaxSections
    /\ unit_pc' = [unit_pc EXCEPT ![u] = "blocked"]
    /\ UNCHANGED <<mtx, safe_data, guards, unit_local, unit_done, last_exit>>
    /\ UNCHANGED notLock

\* lock_guard's constructor returns; lock<T> is constructed and returned
Acquire(u) ==
    /\ unit_pc[u] = "blocked"
    /\ MutexLockReturns
    /\ mtx' = {u}
    /\ guards' = guards \cup {u}
    /\ unit_pc' = [unit_pc EXCEPT ![u] = "read"]
    /\ UNCHANGED <<safe_data, unit_local, unit_done, last_exit>>
    /\ UNCHANGED notLock

\* a read of the wrapped value through lock::operator->
GuardRead(u) ==
    /\ unit_pc[u] = "read"
    /\ unit_local' = [unit_local EXCEPT ![u] = safe_data]
    /\ unit_pc' = [unit_pc EXCEPT ![u] = "write"]
    /\ UNCHANGED <<mtx, safe_data, guards, unit_done, last_exit>>
    /\ UNCHANGED notLock

\* a write of the wrapped value through lock::operator->
GuardWrite(u) ==
    /\ unit_pc[u] = "write"
    /\ safe_data' = unit_local[u] + 1
    /\ unit_pc' = [unit_pc EXCEPT ![u] = "leave"]
    /\ UNCHANGED <<mtx, guards, unit_local, unit_done, last_exit>>
    /\ UNCHANGED notLock

\* the ways the scope of a lock<T> object is left: at its end, or before it
\* by a return statement or by an exception passing through
ExitPaths(pc) ==
    IF pc = "leave" THEN {"return"} ELSE {"early_return", "exception"}

\* variant of GuardDestructor: stack unwinding skips the destructor
GuardDestructorMutant(u, how) == IF how = "exception" THEN {} ELSE {u}

\* lock<T> has the implicit destructor, which destroys the member `guard`:
\* ~lock_guard unlocks the mutex of u however the scope is left
GuardDestructor(u, how) == {u}

\* the lock<T> object goes out of scope, and with it what the critical
\* section kept of the value
Release(u) ==
    /\ unit_pc[u] \in {"read", "write", "leave"}
    /\ \E how \in ExitPaths(unit_pc[u]) :
         /\ mtx' = mtx \ GuardDestructor(u, how)
         /\ last_exit' = how
    /\ guards' = guards \ {u}
    /\ unit_done' = [unit_done EXCEPT ![u] = @ + 1]
    /\ unit_pc' = [unit_pc EXCEPT ![u] = "out"]
    /\ unit_local' = [unit_local EXCEPT ![u] = 0]
    /\ UNCHANGED safe_data
    /\ UNCHANGED notLock

LockInit ==
    /\ mtx = {}
    /\ safe_data = 0
    /\ guards = {}
    /\ unit_pc = [u \in Units |-> "out"]
    /\ unit_local = [u \in Units |-> 0]
    /\ unit_done = [u \in Units |-> 0]
    /\ last_exit = "none"

LockNext ==
    \E u \in Units :
        \/ CallLock(u)
        \/ Acquire(u)
        \/ GuardRead(u)
        \/ GuardWrite(u)
        \/ Release(u)

----------------------------------------------------------------------------
(* serve(port, handler) *)

\* how many peers the accept loop accepts
MaxPeers == 3
\* how many addresses getaddrinfo returns at most
MaxCands == 2

\* what socket / setsockopt / bind do for one resolved address
CandOutcomes == {"socket_fails", "setsockopt_fails", "bind_fails", "bind_ok"}

\* lines 201-219: the loop over the resolved addresses
RECURSIVE BindLoop(_)
BindLoop(res) ==
    IF res = <<>> THEN "throw"                       \* r == NULL
    ELSE IF Head(res) = "socket_fails" THEN "throw"
    ELSE IF Head(res) = "setsockopt_fails" THEN "throw"
    ELSE IF Head(res) = "bind_fails" THEN BindLoop(Tail(res))
    ELSE "bound"

\* the addresses the loop of lines 201-215 visits, with what happened there
RECURSIVE BindLoopCalls(_)
BindLoopCalls(res) ==
    IF res = <<>> THEN <<>>
    ELSE IF Head(res) = "bind_fails"
      THEN <<"bind_fails">> \o BindLoopCalls(Tail(res))
    ELSE <<Head(res)>>

\* the calls serve makes before the accept loop, with what they did
SetupCalls(gai_ok, res, listen_ok) ==
    IF ~gai_ok THEN <<"getaddrinfo_fails">>
    ELSE <<"getaddrinfo_ok">> \o BindLoopCalls(res)
           \o (IF BindLoop(res) = "throw" THEN <<>>
               ELSE IF listen_ok THEN <<"listen_ok">>
               ELSE <<"listen_fails">>)

\* lines 197-223: getaddrinfo, the bind loop, listen
ServeSetup ==
    /\ serve_pc = "setup"
    /\ \E gai_ok \in BOOLEAN, res \in SeqsUpTo(CandOutcomes, MaxCands),
          listen_ok \in BOOLEAN :
         /\ serve_pc' = IF ~gai_ok THEN "threw"
                        ELSE IF BindLoop(res) = "throw" THEN "threw"
                        ELSE IF ~listen_ok THEN "threw"
                        ELSE "accepting"
         /\ setup_calls' = SetupCalls(gai_ok, res, listen_ok)
    /\ UNCHANGED <<handler, threads, accept_failed>>
    /\ UNCHANGED notServe

\* std::move(handler) move-constructs the thread's copy: the moved-from
\* std::function is valid but unspecified (libstdc++ leaves it empty, libc++
\* leaves a target held in the small buffer in place)
MovedFrom(h) == IF h = "empty" THEN {"empty"} ELSE {"target", "empty"}

\* variant of AfterFailedAccept: the loop is left
AfterFailedAcceptMutant == "returned"

\* lines 232-234: if (new_fd == -1) continue; the loop has no other exit
AfterFailedAccept == "accepting"

\* one turn of the while (true) loop: accept, and threads.emplace_back;
\* a thread's `retried` tells that the accept call before its own failed
Accept ==
    /\ serve_pc = "accepting"
    /\ \E new_fd \in {-1, Len(threads) + 1} :
         IF new_fd = -1
           THEN /\ accept_failed' = TRUE
                /\ serve_pc' = AfterFailedAccept
                /\ UNCHANGED <<handler, threads>>
           ELSE /\ Len(threads) < MaxPeers
                /\ accept_failed' = FALSE
                /\ threads' = Append(threads,
                                 [fd |-> new_fd, handler |-> handler,
                                  pc |-> "spawned", invoked |-> FALSE,
                                  exit |-> "none", closed |-> FALSE,
                                  retried |-> accept_failed])
                /\ handler' \in MovedFrom(handler)
                /\ UNCHANGED serve_pc
    /\ UNCHANGED setup_calls
    /\ UNCHANGED notServe

\* the thread starts: connection conn{ fd }; handler(conn) is called.
\* Calling an empty std::function throws std::bad_function_call, which no
\* catch clause of the thread matches: std::terminate ends the process.
ThreadInvoke(i) ==
    /\ serve_pc = "accepting"
    /\ threads[i].pc = "spawned"
    /\ IF threads[i].handler = "empty"
         THEN /\ threads' = [threads EXCEPT ![i].pc = "exited",
                                            ![i].exit = "bad_function_call"]
              /\ serve_pc' = "terminated"
         ELSE /\ threads' = [threads EXCEPT ![i].pc = "in_handler",
                                            ![i].invoked = TRUE]
              /\ UNCHANGED serve_pc
    /\ UNCHANGED <<handler, accept_failed, setup_calls>>
    /\ UNCHANGED notServe

\* how a call of the caller's handler can end
HandlerExits == {"return", "connection_exception", "other_exception"}

\* variant of Caught: no catch clause
CaughtMutant(exit) == FALSE

\* whether catch (const connection_exception&) matches
Caught(exit) == exit = "connection_exception"

\* handler(conn) ends: lines 243-245, or std::terminate for an exception
\* the catch clause does not match
HandlerEnds(i) ==
    /\ serve_pc = "accepting"
    /\ threads[i].pc = "in_handler"
    /\ \E exit \in HandlerExits :
         IF exit = "return" \/ Caught(exit)
           THEN /\ threads' = [threads EXCEPT ![i].pc = "exited",
                                              ![i].exit = exit,
                                              ![i].closed = TRUE]
                /\ UNCHANGED serve_pc
           ELSE /\ threads' = [threads EXCEPT ![i].pc = "exited",
                                              ![i].exit = exit]
                /\ serve_pc' = "terminated"
    /\ UNCHANGED <<handler, accept_failed, setup_calls>>
    /\ UNCHANGED notServe

ServeInit ==
    /\ serve_pc = "setup"
    /\ handler = "target"
    /\ threads = <<>>
    /\ accept_failed = FALSE
    /\ setup_calls = <<>>

ServeNext ==
    \/ ServeSetup
    \/ Accept
    \/ \E i \in 1..Len(threads) : ThreadInvoke(i)
    \/ \E i \in 1..Len(threads) : HandlerEnds(i)

----------------------------------------------------------------------------
(* message_parser_builder and message_parser.  A std::string is the        *)
(* sequence of its characters.                                             *)

\* how many parameters one command is given
MaxParams == 2
\* how many tokens a parsed line holds
MaxTokens == 3

\* the names passed to command(), the second extending the first
CommandNames == {<<"a">>, <<"a", "b">>}
\* the names passed to parameter()
ParamNames == {<<"P">>, <<"Q">>}
\* the callables passed to end(): one for each command
Handlers == {"h"}
\* the tokens of the lines passed to parse()
TokenSet == CommandNames \cup {<<"x">>}

\* the characters operator>> skips and stops at (std::isspace)
Whitespace == {" ", "\t", "\n", "\r", "\f"}

\* the lines passed to parse(): the tokens separated by single blanks, or
\* separated, preceded and followed by runs of whitespace
RECURSIVE Join(_, _)
Join(toks, sep) ==
    IF toks = <<>> THEN <<>>
    ELSE IF Len(toks) = 1 THEN Head(toks)
    ELSE Head(toks) \o sep \o Join(Tail(toks), sep)

Lines ==
    {Join(toks, <<" ">>) : toks \in SeqsUpTo(TokenSet, MaxTokens)}
    \cup {<<" ", "\t">> \o Join(toks, <<"\t", " ">>) \o <<" ", "\n">> :
             toks \in SeqsUpTo(TokenSet, MaxTokens)}

\* an unordered_map without elements
EmptyMap == [name \in {} |-> {}]

\* detail::command{}
NewCommand == [parameters |-> <<>>, handler |-> "none"]

CurrentName == CHOOSE name \in current_command : TRUE

Abort(op, arg) ==
    /\ b_pc' = "aborted"
    /\ UNCHANGED <<b_commands, current_command>>

\* variant of NoCurrentCommand: the assertion is compiled out
NoCurrentCommandMutant == TRUE

\* assert(!current_command)
NoCurrentCommand == current_command = {}

\* assert(current_command)
HasCurrentCommand == current_command # {}

\* variant of TryEmplace: operator[] in place of try_emplace
TryEmplaceMutant(commands, name) ==
    [map |-> [n \in DOMAIN commands \cup {name} |->
                 IF n = name THEN NewCommand ELSE commands[n]],
     inserted |-> TRUE]

\* try_emplace(name, detail::command{}): the map, and whether it inserted
TryEmplace(commands, name) ==
    IF name \in DOMAIN commands
      THEN [map |-> commands, inserted |-> FALSE]
      ELSE [map |-> [n \in DOMAIN commands \cup {name} |->
                        IF n = name THEN NewCommand ELSE commands[n]],
            inserted |-> TRUE]

\* message_parser_builder::command
Command(name) ==
    /\ b_pc = "building"
    /\ b_call' = [op |-> "command", arg |-> name]
    /\ b_tick' = ~b_tick
    /\ IF ~NoCurrentCommand
         THEN Abort("command", name)
         ELSE LET r == TryEmplace(b_commands, name) IN
              IF ~r.inserted
                THEN Abort("command", name)
                ELSE /\ b_commands' = r.map
                     /\ current_command' = {name}
                     /\ UNCHANGED b_pc
    /\ UNCHANGED <<p_commands, p_pc, p_line, p_exc, p_invoked>>
    /\ UNCHANGED notParser

\* variant of SetHandler: the handler is dropped
SetHandlerMutant(commands, name, h) == commands

\* current_command->handler = std::move(handler)
SetHandler(commands, name, h) == [commands EXCEPT ![name].handler = h]

\* message_parser_builder::end
End(h) ==
    /\ b_pc = "building"
    /\ b_call' = [op |-> "end", arg |-> h]
    /\ b_tick' = ~b_tick
    /\ IF ~HasCurrentCommand
         THEN Abort("end", h)
         ELSE /\ b_commands' = SetHandler(b_commands, CurrentName, h)
              /\ current_command' = {}
              /\ UNCHANGED b_pc
    /\ UNCHANGED <<p_commands, p_pc, p_line, p_exc, p_invoked>>
    /\ UNCHANGED notParser

\* current_command->parameters.push_back({ name })
PushBack(parameters, name) == Append(parameters, name)

\* message_parser_builder::parameter
Parameter(name) ==
    /\ b_pc = "building"
    /\ HasCurrentCommand => Len(b_commands[CurrentName].parameters) < MaxParams
    /\ b_call' = [op |-> "parameter", arg |-> name]
    /\ b_tick' = ~b_tick
    /\ IF ~HasCurrentCommand
         THEN Abort("parameter", name)
         ELSE /\ b_commands' =
                   [b_commands EXCEPT ![CurrentName].parameters =
                        PushBack(@, name)]
              /\ UNCHANGED <<b_pc, current_command>>
    /\ UNCHANGED <<p_commands, p_pc, p_line, p_exc, p_invoked>>
    /\ UNCHANGED notParser

\* message_parser_builder::build: the parser takes the map; the builder is
\* left with a moved-from map and is not used again
Build ==
    /\ b_pc = "building"
    /\ b_pc' = "built"
    /\ b_call' = [op |-> "build", arg |-> <<>>]
    /\ b_tick' = ~b_tick
    /\ p_commands' = b_commands
    /\ b_commands' = EmptyMap
    /\ p_pc' = "ready"
    /\ UNCHANGED <<current_command, p_line, p_exc, p_invoked>>
    /\ UNCHANGED notParser

\* ss >> str from position pos: skip whitespace, then take the characters up
\* to the next whitespace; the stream fails when none is left
RECURSIVE SkipWs(_, _)
SkipWs(msg, pos) ==
    IF pos <= Len(msg) /\ msg[pos] \in Whitespace
      THEN SkipWs(msg, pos + 1) ELSE pos

RECURSIVE WordEnd(_, _)
WordEnd(msg, pos) ==
    IF pos <= Len(msg) /\ msg[pos] \notin Whitespace
      THEN WordEnd(msg, pos + 1) ELSE pos

Extract(msg, pos) ==
    LET s == SkipWs(msg, pos)
        e == WordEnd(msg, s)
    IN  [ok |-> s <= Len(msg), str |-> SubSeq(msg, s, e - 1), pos |-> e]

\* detail::get_map_keys: the keys in the map's iteration order, which the
\* standard leaves open
get_map_keys(map) ==
    {keys \in [1..Cardinality(DOMAIN map) -> DOMAIN map] :
        \A i, j \in DOMAIN keys : keys[i] = keys[j] => i = j}

\* detail::concat_strings_formatted
RECURSIVE ConcatLoop(_, _)
ConcatLoop(res, strings) ==
    IF strings = <<>> THEN res
    ELSE ConcatLoop(res \o Head(strings) \o <<",">>, Tail(strings))

\* variant of concat_strings_formatted: no comma after a string
RECURSIVE ConcatLoopNoComma(_, _)
ConcatLoopNoComma(res, strings) ==
    IF strings = <<>> THEN res
    ELSE ConcatLoopNoComma(res \o Head(strings), Tail(strings))

concat_strings_formatted_mutant(strings) ==
    LET res == ConcatLoopNoComma(<<"[">>, strings)
    IN  [res EXCEPT ![Len(res)] = "]"]

concat_strings_formatted(strings) ==
    LET res == ConcatLoop(<<"[">>, strings)
    IN  [res EXCEPT ![Len(res)] = "]"]

\* std::format of a literal and its arguments; a literal is one element
NoException == [type |-> "none", what |-> <<>>]
parsing_exception(message) == [type |-> "parsing_exception", what |-> message]

\* variant of ParamLoop: the arguments are collected in reverse
RECURSIVE ParamLoopArgsMutant(_, _, _, _)
ParamLoopArgsMutant(msg, pos, parameters, args) ==
    IF parameters = <<>> THEN [exc |-> NoException, args |-> args, pos |-> pos]
    ELSE LET r == Extract(msg, pos) IN
         IF ~r.ok
           THEN [exc |-> parsing_exception(
                            <<"expected parameter: ">> \o Head(parameters)),
                 args |-> args, pos |-> r.pos]
           ELSE ParamLoopArgsMutant(msg, r.pos, Tail(parameters),
                                    <<r.str>> \o args)

\* variant of ParamLoop: the last parameter is named for the missing one
RECURSIVE ParamLoopNameMutant(_, _, _, _)
ParamLoopNameMutant(msg, pos, parameters, args) ==
    IF parameters = <<>> THEN [exc |-> NoException, args |-> args, pos |-> pos]
    ELSE LET r == Extract(msg, pos) IN
         IF ~r.ok
           THEN [exc |-> parsing_exception(
                            <<"expected parameter: ">>
                              \o parameters[Len(parameters)]),
                 args |-> args, pos |-> r.pos]
           ELSE ParamLoopNameMutant(msg, r.pos, Tail(parameters),
                                    Append(args, r.str))

\* lines 400-405: the loop over cmd.parameters
RECURSIVE ParamLoop(_, _, _, _)
ParamLoop(msg, pos, parameters, args) ==
    IF parameters = <<>> THEN [exc |-> NoException, args |-> args, pos |-> pos]
    ELSE LET r == Extract(msg, pos) IN
         IF ~r.ok
           THEN [exc |-> parsing_exception(
                            <<"expected parameter: ">> \o Head(parameters)),
                 args |-> args, pos |-> r.pos]
           ELSE ParamLoop(msg, r.pos, Tail(parameters), Append(args, r.str))

\* variant of Surplus: no check
SurplusMutant(msg, pos) ==
    [ok |-> FALSE, str |-> <<>>, pos |-> pos]

\* lines 406-408: the check for a token after the last parameter
Surplus(msg, pos) == Extract(msg, pos)

\* line 395: whether the first token names a command
IsCommand(commands, r) == r.ok /\ r.str \in DOMAIN commands

\* message_parser::parse, for one iteration order cmd_names of the map:
\* the exception it ends with and the handler calls it makes
ParseResult(commands, cmd_names, msg) ==
    LET first == Extract(msg, 1) IN
    IF ~IsCommand(commands, first)
      THEN [exc |-> parsing_exception(
                       <<"expected command: ">>
                         \o concat_strings_formatted(cmd_names)),
            invoked |-> <<>>]
      ELSE
        LET cmd  == commands[first.str]
            loop == ParamLoop(msg, first.pos, cmd.parameters, <<>>)
            more == Surplus(msg, loop.pos)
        IN
        IF loop.exc.type # "none"
          THEN [exc |-> loop.exc, invoked |-> <<>>]
        ELSE IF more.ok
          THEN [exc |-> parsing_exception(
                           <<"extraneous parameter: '">> \o more.str
                             \o <<"'">>),
                invoked |-> <<>>]
        ELSE IF cmd.handler = "none"
          \* calling an empty std::function
          THEN [exc |-> [type |-> "bad_function_call", what |-> <<>>],
                invoked |-> <<>>]
        ELSE [exc |-> NoException,
              invoked |-> <<[command |-> first.str, handler |-> cmd.handler,
                             args |-> loop.args]>>]

\* message_parser::parse
Parse(msg) ==
    /\ p_pc = "ready"
    /\ \E cmd_names \in get_map_keys(p_commands) :
         LET r == ParseResult(p_commands, cmd_names, msg) IN
         /\ p_exc' = r.exc
         /\ p_invoked' = r.invoked
    /\ p_line' = msg
    /\ p_pc' = "parsed"
    /\ UNCHANGED <<b_pc, b_commands, current_command, b_call, b_tick,
                   p_commands>>
    /\ UNCHANGED notParser

\* the caller is done with the outcome of parse (server.cpp 135-139,
\* client.cpp 26-32) and turns to the next line
ParseReturn ==
    /\ p_pc = "parsed"
    /\ p_pc' = "ready"
    /\ p_line' = <<>>
    /\ p_exc' = NoException
    /\ p_invoked' = <<>>
    /\ UNCHANGED <<b_pc, b_commands, current_command, b_call, b_tick,
                   p_commands>>
    /\ UNCHANGED notParser

ParserNext ==
    \/ \E name \in CommandNames : Command(name)
    \/ \E name \in ParamNames : Parameter(name)
    \/ \E h \in Handlers : End(h)
    \/ Build
    \/ \E msg \in Lines : Parse(msg)
    \/ ParseReturn

----------------------------------------------------------------------------
(* The specifications *)

ParserInit ==
    /\ b_pc = "building"
    /\ b_commands = EmptyMap
    /\ current_command = {}
    /\ b_call = [op |-> "none", arg |-> <<>>]
    /\ b_tick = FALSE
    /\ p_commands = EmptyMap
    /\ p_pc = "none"
    /\ p_line = <<>>
    /\ p_exc = NoException
    /\ p_invoked = <<>>

----------------------------------------------------------------------------
(* connect(): resolve the address, try the resolved addresses in turn, run *)
(* the handler on the first one that connects, close the socket.           *)

\* how many addresses getaddrinfo returns at most
MaxAddrs == 3

\* what the loop body of lines 273-283 meets at one address
AddrOutcomes == {"socket_fails", "connect_fails", "connect_ok"}

\* lines 268-270: getaddrinfo
ConnectResolve ==
    /\ c_pc = "start"
    /\ \E gai_ok \in BOOLEAN, res \in SeqsUpTo(AddrOutcomes, MaxAddrs) :
         IF gai_ok
           THEN c_pc' = "loop" /\ c_res' = res
           ELSE c_pc' = "threw" /\ UNCHANGED c_res
    /\ UNCHANGED <<c_sockfd, c_open, c_invocations, c_exit>>
    /\ UNCHANGED notConnect

\* lines 272-283, one turn of the loop with r != NULL
ConnectTry ==
    /\ c_pc = "loop"
    /\ c_res # <<>>
    /\ IF Head(c_res) = "socket_fails"
         THEN /\ c_pc' = "threw"
              /\ c_sockfd' = -1
              /\ UNCHANGED <<c_res, c_open>>
         ELSE /\ c_sockfd' = c_sockfd + 1
              /\ IF Head(c_res) = "connect_fails"
                   THEN /\ c_open' = (c_open \cup {c_sockfd'}) \ {c_sockfd'}
                        /\ c_res' = Tail(c_res)
                        /\ UNCHANGED c_pc
                   ELSE /\ c_open' = c_open \cup {c_sockfd'}
                        /\ c_pc' = "connected"
                        /\ UNCHANGED c_res
    /\ UNCHANGED <<c_invocations, c_exit>>
    /\ UNCHANGED notConnect

\* lines 272 and 284-286: the loop ends with r == NULL
ConnectExhausted ==
    /\ c_pc = "loop"
    /\ c_res = <<>>
    /\ c_pc' = "threw"
    /\ UNCHANGED <<c_res, c_sockfd, c_open, c_invocations, c_exit>>
    /\ UNCHANGED notConnect

\* lines 288-290: connection conn{ sockfd }; handler(conn) is called
ConnectInvoke ==
    /\ c_pc = "connected"
    /\ c_pc' = "in_handler"
    /\ c_invocations' = c_invocations + 1
    /\ UNCHANGED <<c_res, c_sockfd, c_open, c_exit>>
    /\ UNCHANGED notConnect

\* lines 289-292: handler(conn) ends; the catch clause is that of serve
ConnectHandlerEnds ==
    /\ c_pc = "in_handler"
    /\ \E exit \in HandlerExits :
         /\ c_exit' = exit
         /\ c_pc' = IF exit = "return" \/ Caught(exit) THEN "closing"
                    ELSE "propagated"
    /\ UNCHANGED <<c_res, c_sockfd, c_open, c_invocations>>
    /\ UNCHANGED notConnect

\* line 294: close(sockfd), and connect returns
ConnectClose ==
    /\ c_pc = "closing"
    /\ c_open' = c_open \ {c_sockfd}
    /\ c_pc' = "returned"
    /\ UNCHANGED <<c_res, c_sockfd, c_invocations, c_exit>>
    /\ UNCHANGED notConnect

ConnectInit ==
    /\ c_pc = "start"
    /\ c_res = <<>>
    /\ c_sockfd = 0
    /\ c_open = {}
    /\ c_invocations = 0
    /\ c_exit = "none"

ConnectNext ==
    \/ ConnectResolve
    \/ ConnectTry
    \/ ConnectExhausted
    \/ ConnectInvoke
    \/ ConnectHandlerEnds
    \/ ConnectClose

----------------------------------------------------------------------------
(* connection::try_recv: select() on the one descriptor with a zero        *)
(* timeout, then connection::recv() if the descriptor is readable.         *)

\* how many times try_recv is called
MaxPolls == 2
\* how many messages the peer sends while try_recv is used
PollMsgs == 1

\* select(fd + 1, &rfd, NULL, NULL, &timeout) with timeout {0, 0}: -1, or
\* the number of readable descriptors of rfd, which holds fd only; fd is
\* readable when bytes have arrived or the peer has closed, and bytes in
\* flight may not have arrived yet
SelectReturns ==
    {-1, 0} \cup (IF Len(wire) > 0 \/ send_pc = "closed" THEN {1} ELSE {})

NoResult == [kind |-> "none", value |-> <<>>]
Nothing  == [kind |-> "nothing", value |-> <<>>]
Thrown(exc) == [kind |-> "exception", value |-> exc]
Message(string) == [kind |-> "message", value |-> string]

\* variant of AfterSelect: recv() is called whatever select reports
AfterSelectMutant(ret) ==
    IF ret = -1 THEN "throw" ELSE "recv"

\* lines 111-119: the branch taken on select's return value; with ret > 0
\* the one descriptor of rfd is set, so FD_ISSET holds
AfterSelect(ret) ==
    IF ret = -1 THEN "throw"
    ELSE IF ret = 0 THEN "nothing"
    ELSE "recv"

\* lines 107-116: try_recv up to the call of recv()
TrySelect ==
    /\ t_pc = "out"
    /\ recv_pc = "idle"
    /\ t_calls < MaxPolls
    /\ t_calls' = t_calls + 1
    /\ t_base' = Len(recvd)
    /\ \E ret \in SelectReturns :
         /\ t_ready' = ret
         /\ IF AfterSelect(ret) = "throw"
              THEN /\ t_result' = Thrown("unknown_connection_exception")
                   /\ UNCHANGED t_pc
              ELSE IF AfterSelect(ret) = "nothing"
              THEN /\ t_result' = Nothing
                   /\ UNCHANGED t_pc
              ELSE /\ t_result' = NoResult
                   /\ t_pc' = "receiving"
    /\ UNCHANGED wireVars
    /\ UNCHANGED notWirePoll

\* recv() inside try_recv: detail::recv is entered
TryRecv ==
    /\ t_pc = "receiving"
    /\ Len(recvd) = t_base
    /\ Recv

\* recv() inside try_recv: a turn of detail::recv's loop
TryRecvChunk ==
    /\ t_pc = "receiving"
    /\ RecvChunk

\* line 116: return recv(), or the exception of recv() passes through
TryReturn ==
    /\ t_pc = "receiving"
    /\ \/ recv_pc = "failed"
       \/ recv_pc = "idle" /\ Len(recvd) > t_base
    /\ t_result' = IF recv_pc = "failed" THEN Thrown(recv_exc)
                   ELSE Message(recvd[Len(recvd)])
    /\ t_pc' = "out"
    /\ UNCHANGED <<t_ready, t_base, t_calls>>
    /\ UNCHANGED wireVars
    /\ UNCHANGED notWirePoll

PollInit ==
    /\ t_pc = "out"
    /\ t_ready = 0
    /\ t_base = 0
    /\ t_result = NoResult
    /\ t_calls = 0

PollNext ==
    \/ \E data \in Payloads : Len(sent) < PollMsgs /\ Send(data)
    \/ SendChunk
    \/ PeerClose
    \/ TrySelect
    \/ TryRecv
    \/ TryRecvChunk
    \/ TryReturn

----------------------------------------------------------------------------
(* connection_iterator, driven by a range-based for loop as in the session *)
(* loop of the server: begin(), then it != end(), *it, ++it for ever.      *)

\* the messages the peer sends to the loop: they differ in length, which is
\* all the iterator can tell of them
IterPayloads == SeqsUpTo({1}, MaxLen)

\* the member initialiser of current_value
Placeholder == <<"THIS SHOULD NOT BE DISPLAYED">>

\* variant of EqualsEnd: an empty message is taken for the end
EqualsEndMutant == current_value = <<>>

\* operator==(connection_iterator_end_t): return false
EqualsEnd == FALSE

\* begin(): the constructor, up to its call of operator++
IterBegin ==
    /\ it_pc = "none"
    /\ recv_pc = "idle"
    /\ it_pc' = "incrementing"
    /\ current_value' = Placeholder
    /\ it_base' = Len(recvd)
    /\ UNCHANGED <<it_exc, yielded>>
    /\ UNCHANGED wireVars
    /\ UNCHANGED notWireIter

\* operator++: detail::recv is entered
IterRecv ==
    /\ it_pc = "incrementing"
    /\ Len(recvd) = it_base
    /\ Recv

\* operator++: a turn of detail::recv's loop
IterRecvChunk ==
    /\ it_pc = "incrementing"
    /\ RecvChunk

\* operator++: current_value = the string detail::recv returned
IterAssign ==
    /\ it_pc = "incrementing"
    /\ recv_pc = "idle"
    /\ Len(recvd) > it_base
    /\ current_value' = recvd[Len(recvd)]
    /\ it_pc' = "ready"
    /\ UNCHANGED <<it_base, it_exc, yielded>>
    /\ UNCHANGED wireVars
    /\ UNCHANGED notWireIter

\* operator++: detail::recv threw; nothing in the iterator catches
IterThrow ==
    /\ it_pc = "incrementing"
    /\ recv_pc = "failed"
    /\ it_exc' = recv_exc
    /\ it_pc' = "propagated"
    /\ UNCHANGED <<current_value, it_base, yielded>>
    /\ UNCHANGED wireVars
    /\ UNCHANGED notWireIter

\* the loop: it != end(), then *it for the body, then ++it is called
IterDeref ==
    /\ it_pc = "ready"
    /\ IF EqualsEnd
         THEN /\ it_pc' = "ended"
              /\ UNCHANGED <<it_base, yielded>>
         ELSE /\ yielded' = Append(yielded, current_value)
              /\ it_pc' = "incrementing"
              /\ it_base' = Len(recvd)
    /\ UNCHANGED <<current_value, it_exc>>
    /\ UNCHANGED wireVars
    /\ UNCHANGED notWireIter

IterInit ==
    /\ it_pc = "none"
    /\ current_value = <<>>
    /\ it_base = 0
    /\ it_exc = "none"
    /\ yielded = <<>>

IterNext ==
    \/ \E data \in IterPayloads : Send(data)
    \/ SendChunk
    \/ PeerClose
    \/ IterBegin
    \/ IterRecv
    \/ IterRecvChunk
    \/ IterAssign
    \/ IterThrow
    \/ IterDeref

----------------------------------------------------------------------------
(* The shop server.  Every connection runs the handler of server.cpp: it   *)
(* builds a parser for list, bal USER and buy USER ITEM COUNT and parses   *)
(* each message of the connection.  The three command handlers work on the *)
(* one sync::safe<shop> through its guard; the safe's mutex is mtx.        *)

\* the connections served at the same time
NumSessions == 2
\* how many messages the sessions receive in all
MaxRequests == 3
\* uint64_t, scaled down: the width of balance, price, count and cost
UintBits == 3
\* the balance of the user in shop.bal
StartBalance == 3

Sessions == 1..NumSessions

Modulus == 2 ^ UintBits
UintMax == Modulus - 1

\* the variables of the lock model that the shop does not use
unitVars == <<safe_data, unit_pc, unit_local, unit_done, last_exit>>

ListName == <<"l", "i", "s", "t">>
BalName  == <<"b", "a", "l">>
BuyName  == <<"b", "u", "y">>

\* the map message_parser_builder has built at build()
ShopParser ==
    [name \in {ListName, BalName, BuyName} |->
        IF name = ListName THEN [parameters |-> <<>>, handler |-> "list"]
        ELSE IF name = BalName
          THEN [parameters |-> << <<"U", "S", "E", "R">> >>,
                handler |-> "bal"]
        ELSE [parameters |-> << <<"U", "S", "E", "R">>,
                                <<"I", "T", "E", "M">>,
                                <<"C", "O", "U", "N", "T">> >>,
              handler |-> "buy"]]

\* what shop() can find in shop.listing and shop.bal: no item or one, and
\* one user
Listings == { <<>>, << [name |-> <<"i">>, price |-> 2] >> }
Balances == { << [name |-> <<"u">>, balance |-> StartBalance] >> }

\* the messages a peer sends: one for each path of the session loop
RequestLines ==
    { Join(<<ListName>>, <<" ">>),
      Join(<<BalName, <<"u">> >>, <<" ">>),
      Join(<<BalName, <<"v">> >>, <<" ">>),
      Join(<<BuyName, <<"u">>, <<"i">>, <<"1">> >>, <<" ">>),
      Join(<<BuyName, <<"v">>, <<"i">>, <<"1">> >>, <<" ">>),
      Join(<<BuyName, <<"u">>, <<"j">>, <<"1">> >>, <<" ">>),
      Join(<<BuyName, <<"u">>, <<"i">>, <<"x">> >>, <<" ">>),
      Join(<<BuyName, <<"u">>, <<"i">>, <<"-", "1">> >>, <<" ">>),
      Join(<<BuyName, <<"u">>, <<"i">> >>, <<" ">>),
      Join(<<<<"x">> >>, <<" ">>) }

DigitChars == <<"0", "1", "2", "3", "4", "5", "6", "7", "8", "9">>

IsDigit(c) == \E d \in 1..10 : DigitChars[d] = c
DigitValue(c) == (CHOOSE d \in 1..10 : DigitChars[d] = c) - 1

\* operator<< and std::format("{}") of an unsigned integer
RECURSIVE Decimal(_)
Decimal(n) ==
    IF n < 10 THEN <<DigitChars[n + 1]>>
    ELSE Decimal(n \div 10) \o <<DigitChars[(n % 10) + 1]>>

\* the digits of str from pos on: how many, their value, and whether the
\* value is beyond the unsigned type
RECURSIVE DigitsFrom(_, _, _)
DigitsFrom(str, pos, acc) ==
    IF pos <= Len(str) /\ IsDigit(str[pos])
      THEN LET v == acc.value * 10 + DigitValue(str[pos]) IN
           DigitsFrom(str, pos + 1,
                      [count |-> acc.count + 1,
                       value |-> IF v > UintMax THEN UintMax ELSE v,
                       over  |-> acc.over \/ v > UintMax])
      ELSE acc

\* std::stoull(str): std::strtoull in base 10 on a token (no white space):
\* an optional sign, then digits up to the first other character; no digit
\* throws std::invalid_argument, a value out of range std::out_of_range,
\* and a minus sign negates the value in the unsigned type
Stoull(str) ==
    LET signed == str # <<>> /\ str[1] \in {"+", "-"}
        d == DigitsFrom(str, IF signed THEN 2 ELSE 1,
                        [count |-> 0, value |-> 0, over |-> FALSE])
    IN  IF d.count = 0 THEN [exc |-> "invalid_argument", value |-> 0]
        ELSE IF d.over THEN [exc |-> "out_of_range", value |-> 0]
        ELSE [exc |-> "none",
              value |-> IF signed /\ str[1] = "-"
                          THEN (Modulus - d.value) % Modulus
                          ELSE d.value]

\* __builtin_mul_overflow(a, b, &cost)
MulOverflows(a, b) == a * b > UintMax

\* shop::get_user and shop::get_item: the index of the first element of
\* that name, 0 for the empty optional
Find(vector, name) ==
    IF \E i \in 1..Len(vector) : vector[i].name = name
      THEN CHOOSE i \in 1..Len(vector) :
             /\ vector[i].name = name
             /\ \A j \in 1..(i - 1) : vector[j].name # name
      ELSE 0

\* what connection::send puts on the stream for a string whose size()
\* converts to the int `remaining`: the prefix and, if it is positive, the
\* characters
Frame(remaining, chars) ==
    [prefix |-> remaining,
     payload |-> IF remaining > 0 THEN chars ELSE <<>>]

FrameOf(string) == Frame(Len(string), string)

\* the list handler's stream: name, ' ', price, '\n' for every item
RECURSIVE ListingText(_)
ListingText(vector) ==
    IF vector = <<>> THEN <<>>
    ELSE Head(vector).name \o <<" ">> \o Decimal(Head(vector).price)
           \o <<"\n">> \o ListingText(Tail(vector))

\* str.pop_back() on an empty string is undefined: a build with library
\* assertions aborts; otherwise the size becomes size_t(-1), which
\* connection::send converts to the int -1
PopBackEmpty == {"abort", "size_wraps"}

\* the buy handler from get_user to __builtin_mul_overflow: the reply of
\* an early return, or count and cost
BuyValidate(args) ==
    LET user == Find(users, args[1])
        item == Find(items, args[2])
        count == Stoull(args[3])
    IN  IF user = 0
          THEN [reply |-> <<"user '">> \o args[1] \o <<"' does not exist">>,
                count |-> 0, cost |-> 0]
        ELSE IF item = 0
          THEN [reply |-> <<"item '">> \o args[2] \o <<"' does not exist">>,
                count |-> 0, cost |-> 0]
        ELSE IF count.exc # "none"
          THEN [reply |-> <<"invalid cound '">> \o args[3] \o <<"'">>,
                count |-> 0, cost |-> 0]
        ELSE IF MulOverflows(items[item].price, count.value)
          THEN [reply |-> <<"would overflow">>, count |-> 0, cost |-> 0]
        ELSE [reply |-> <<>>, count |-> count.value,
              cost |-> items[item].price * count.value]

\* the bal handler's reply
BalReply(args) ==
    LET user == Find(users, args[1]) IN
    IF user # 0
      THEN users[user].name \o <<" ">> \o Decimal(users[user].balance)
      ELSE <<"user ">> \o args[1] \o <<" does not exist">>

\* the buy handler's last reply
OrderReply(count, name, cost, balance) ==
    Decimal(count) \o <<"x ">> \o name \o <<" ordered\n">>
      \o <<"deducted ">> \o Decimal(cost)
      \o <<" from you balance (current balance: ">> \o Decimal(balance)
      \o <<")">>

\* variant of Insufficient: no check
InsufficientMutant(cost, balance) == FALSE

\* line 123: if (cost > user.balance)
Insufficient(cost, balance) == cost > balance

\* conn.send(frame) as the last statement of a handler that holds the
\* guard: the frame is sent and the handler returns, or send throws
\* unknown_connection_exception, which ends the session; either way the
\* guard goes out of scope
Reply(s, frame, how) ==
    \E sent_ok \in BOOLEAN :
        /\ IF sent_ok
             THEN /\ s_sent' = [s_sent EXCEPT ![s] = Append(@, frame)]
                  /\ s_pc' = [s_pc EXCEPT ![s] = "sent"]
             ELSE /\ s_pc' = [s_pc EXCEPT ![s] = "ended"]
                  /\ UNCHANGED s_sent
        /\ mtx' = mtx \ GuardDestructor(s, IF sent_ok THEN how
                                            ELSE "exception")
        /\ guards' = guards \ {s}

\* parse uses cmd_names only when the first token is no command, so the
\* order of the keys matters for such a message alone
KeyOrders(msg) ==
    IF IsCommand(ShopParser, Extract(msg, 1)) THEN {<<>>}
    ELSE get_map_keys(ShopParser)

\* snl::sync::safe<shop> shop: the constructor of shop reads the two files
ShopLoad ==
    /\ shop_pc = "unloaded"
    /\ shop_pc' = "serving"
    /\ items' \in Listings
    /\ users' \in Balances
    /\ UNCHANGED <<s_pc, s_msg, s_call, s_count, s_cost, s_sent, requests,
                   purchases>>
    /\ UNCHANGED notShop

\* the session loop takes the next message and parses it: a
\* parsing_exception is answered with e.what(); otherwise parse calls the
\* handler, which starts with shop.lock()
SessionReceive(s) ==
    /\ shop_pc = "serving"
    /\ s_pc[s] = "recv"
    /\ requests < MaxRequests
    /\ requests' = requests + 1
    /\ \E msg \in RequestLines :
       \E cmd_names \in KeyOrders(msg) :
         LET r == ParseResult(ShopParser, cmd_names, msg) IN
         /\ s_msg' = [s_msg EXCEPT ![s] = msg]
         /\ s_call' = [s_call EXCEPT ![s] = r.invoked]
         /\ IF r.exc.type = "parsing_exception"
              THEN \E sent_ok \in BOOLEAN :
                     IF sent_ok
                       THEN /\ s_sent' = [s_sent EXCEPT
                                            ![s] = <<FrameOf(r.exc.what)>>]
                            /\ s_pc' = [s_pc EXCEPT ![s] = "sent"]
                       ELSE /\ s_sent' = [s_sent EXCEPT ![s] = <<>>]
                            /\ s_pc' = [s_pc EXCEPT ![s] = "ended"]
              ELSE /\ s_sent' = [s_sent EXCEPT ![s] = <<>>]
                   /\ s_pc' = [s_pc EXCEPT ![s] = "blocked"]
    /\ UNCHANGED <<shop_pc, items, users, s_count, s_cost, purchases>>
    /\ UNCHANGED notShop

\* auto locked_shop = shop.lock() returns
SessionAcquire(s) ==
    /\ shop_pc = "serving"
    /\ s_pc[s] = "blocked"
    /\ MutexLockReturns
    /\ mtx' = {s}
    /\ guards' = guards \cup {s}
    /\ s_pc' = [s_pc EXCEPT ![s] = "locked"]
    /\ UNCHANGED <<shop_pc, items, users, s_msg, s_call, s_count, s_cost,
                   s_sent, requests, purchases>>
    /\ UNCHANGED unitVars
    /\ UNCHANGED notLockShop

\* the list handler after shop.lock()
ListHandler(s) ==
    /\ shop_pc = "serving"
    /\ s_pc[s] = "locked"
    /\ s_call[s][1].handler = "list"
    /\ LET str == ListingText(items) IN
       IF str # <<>>
         THEN /\ Reply(s, FrameOf(Take(str, Len(str) - 1)), "return")
              /\ UNCHANGED shop_pc
         ELSE \E outcome \in PopBackEmpty :
                IF outcome = "abort"
                  THEN /\ shop_pc' = "aborted"
                       /\ UNCHANGED <<s_pc, s_sent, mtx, guards>>
                  ELSE /\ Reply(s, Frame(-1, str), "return")
                       /\ UNCHANGED shop_pc
    /\ UNCHANGED <<items, users, s_msg, s_call, s_count, s_cost, requests,
                   purchases>>
    /\ UNCHANGED unitVars
    /\ UNCHANGED notLockShop

\* the bal handler after shop.lock()
BalHandler(s) ==
    /\ shop_pc = "serving"
    /\ s_pc[s] = "locked"
    /\ s_call[s][1].handler = "bal"
    /\ Reply(s, FrameOf(BalReply(s_call[s][1].args)), "return")
    /\ UNCHANGED <<shop_pc, items, users, s_msg, s_call, s_count, s_cost,
                   requests, purchases>>
    /\ UNCHANGED unitVars
    /\ UNCHANGED notLockShop

\* the buy handler after shop.lock(), lines 99-122
BuyHandler(s) ==
    /\ shop_pc = "serving"
    /\ s_pc[s] = "locked"
    /\ s_call[s][1].handler = "buy"
    /\ LET v == BuyValidate(s_call[s][1].args) IN
       IF v.reply # <<>>
         THEN /\ Reply(s, FrameOf(v.reply), "early_return")
              /\ UNCHANGED <<s_count, s_cost>>
         ELSE /\ s_count' = [s_count EXCEPT ![s] = v.count]
              /\ s_cost' = [s_cost EXCEPT ![s] = v.cost]
              /\ s_pc' = [s_pc EXCEPT ![s] = "check"]
              /\ UNCHANGED <<s_sent, mtx, guards>>
    /\ UNCHANGED <<shop_pc, items, users, s_msg, s_call, requests,
                   purchases>>
    /\ UNCHANGED unitVars
    /\ UNCHANGED notLockShop

\* lines 123-126: the balance check
BuyCheck(s) ==
    /\ shop_pc = "serving"
    /\ s_pc[s] = "check"
    /\ LET user == Find(users, s_call[s][1].args[1]) IN
       IF Insufficient(s_cost[s], users[user].balance)
         THEN Reply(s, FrameOf(<<"insufficient balance">>), "early_return")
         ELSE /\ s_pc' = [s_pc EXCEPT ![s] = "deduct"]
              /\ UNCHANGED <<s_sent, mtx, guards>>
    /\ UNCHANGED <<shop_pc, items, users, s_msg, s_call, s_count, s_cost,
                   requests, purchases>>
    /\ UNCHANGED unitVars
    /\ UNCHANGED notLockShop

\* lines 127-131: user.balance -= cost in uint64_t, and the reply
BuyDeduct(s) ==
    /\ shop_pc = "serving"
    /\ s_pc[s] = "deduct"
    /\ LET args == s_call[s][1].args
           user == Find(users, args[1])
           balance == (users[user].balance + Modulus - s_cost[s]) % Modulus
       IN
       /\ users' = [users EXCEPT ![user].balance = balance]
       /\ purchases' = Append(purchases, s_cost[s])
       /\ Reply(s, FrameOf(OrderReply(s_count[s], args[2], s_cost[s],
                                      balance)), "return")
    /\ UNCHANGED <<shop_pc, items, s_msg, s_call, s_count, s_cost,
                   requests>>
    /\ UNCHANGED unitVars
    /\ UNCHANGED notLockShop

\* the session loop goes on to the next message: ++it is called
SessionLoop(s) ==
    /\ shop_pc = "serving"
    /\ s_pc[s] = "sent"
    /\ s_pc' = [s_pc EXCEPT ![s] = "recv"]
    /\ s_msg' = [s_msg EXCEPT ![s] = <<>>]
    /\ s_call' = [s_call EXCEPT ![s] = <<>>]
    /\ s_count' = [s_count EXCEPT ![s] = 0]
    /\ s_cost' = [s_cost EXCEPT ![s] = 0]
    /\ s_sent' = [s_sent EXCEPT ![s] = <<>>]
    /\ UNCHANGED <<shop_pc, items, users, requests, purchases>>
    /\ UNCHANGED notShop

ShopInit ==
    /\ shop_pc = "unloaded"
    /\ items = <<>>
    /\ users = <<>>
    /\ s_pc = [s \in Sessions |-> "recv"]
    /\ s_msg = [s \in Sessions |-> <<>>]
    /\ s_call = [s \in Sessions |-> <<>>]
    /\ s_count = [s \in Sessions |-> 0]
    /\ s_cost = [s \in Sessions |-> 0]
    /\ s_sent = [s \in Sessions |-> <<>>]
    /\ requests = 0
    /\ purchases = <<>>

ShopNext ==
    \/ ShopLoad
    \/ \E s \in Sessions :
         \/ SessionReceive(s)
         \/ SessionAcquire(s)
         \/ ListHandler(s)
         \/ BalHandler(s)
         \/ BuyHandler(s)
         \/ BuyCheck(s)
         \/ BuyDeduct(s)
         \/ SessionLoop(s)

----------------------------------------------------------------------------
(* A session of serve() whose handler calls connection::recv again and     *)
(* again, with a peer that does not use connection::send: it writes a      *)
(* length prefix of its choice, negative ones included, and as many        *)
(* payload bytes as a non-negative prefix announces, or closes before.     *)

\* how many frames the peer writes
RawFrames == 2

\* the object representation of any int n near zero: for a negative n the
\* bytes of -(n + 1) complemented (two's complement)
RawIntBytes(n) ==
    IF n >= 0 THEN IntBytes(n)
    ELSE [i \in 1..SizeofInt |-> 255 - IntBytes(-(n + 1))[i]]

\* the prefixes the peer writes
RawPrefixes == {-2, -1} \cup (0..MaxLen)

\* the base class a catch clause sees the exception of detail::recv as
ExceptionBase(exc) ==
    IF exc \in {"connection_closed_exception", "unknown_connection_exception"}
      THEN "connection_exception"
      ELSE "other_exception"

\* the peer writes a prefix and the payload that goes with it
RawSend(remaining, data) ==
    /\ send_pc = "idle"
    /\ raw_frames < RawFrames
    /\ Len(data) = (IF remaining > 0 THEN remaining ELSE 0)
    /\ raw_frames' = raw_frames + 1
    /\ wire' = wire \o RawIntBytes(remaining) \o data
    /\ UNCHANGED <<send_pc, send_data, send_remaining, send_p, sent, recv_pc,
                   recv_remaining, recv_string, recv_data, recv_exc, recv_ret,
                   recv_short, recvd>>
    /\ UNCHANGED raw_session
    /\ UNCHANGED notWireRaw

\* the handler calls conn.recv(): detail::recv is entered
RawRecv ==
    /\ raw_session = "in_handler"
    /\ Recv

\* a turn of detail::recv's loop
RawRecvChunk ==
    /\ raw_session = "in_handler"
    /\ RecvChunk

\* the exception of detail::recv leaves the handler: lines 241-246, or
\* std::terminate for an exception the catch clause does not match
RawEscape ==
    /\ raw_session = "in_handler"
    /\ recv_pc = "failed"
    /\ raw_session' = IF Caught(ExceptionBase(recv_exc)) THEN "closed"
                      ELSE "terminated"
    /\ UNCHANGED raw_frames
    /\ UNCHANGED wireVars
    /\ UNCHANGED notWireRaw

RawInit ==
    /\ raw_frames = 0
    /\ raw_session = "in_handler"

RawNext ==
    \/ \E remaining \in RawPrefixes, data \in Payloads :
         RawSend(remaining, data)
    \/ PeerClose
    \/ RawRecv
    \/ RawRecvChunk
    \/ RawEscape

Init ==
    /\ WireInit
    /\ LockInit
    /\ ServeInit
    /\ ParserInit
    /\ ConnectInit
    /\ PollInit
    /\ IterInit
    /\ ShopInit
    /\ RawInit

SpecWire == Init /\ [][WireNext]_vars

SpecLock == Init /\ [][LockNext]_vars

\* fair scheduling: a unit that can take a step of its critical section or
\* leave it does so, and a unit waiting in std::mutex::lock() is not passed
\* over for ever while the mutex is unlocked again and again
LockFairness ==
    \A u \in Units :
        /\ WF_vars(GuardRead(u))
        /\ WF_vars(GuardWrite(u))
        /\ WF_vars(Release(u))
        /\ SF_vars(Acquire(u))

SpecLockFair == Init /\ [][LockNext]_vars /\ LockFairness

SpecServe == Init /\ [][ServeNext]_vars

SpecParser == Init /\ [][ParserNext]_vars

SpecPoll == Init /\ [][PollNext]_vars

SpecIter == Init /\ [][IterNext]_vars

SpecShop == Init /\ [][ShopNext]_vars

SpecRaw == Init /\ [][RawNext]_vars

\* connect is sequential code: each of its own steps is taken; whether the
\* handler ever ends is up to the handler
ConnectFairness ==
    /\ WF_vars(ConnectResolve)
    /\ WF_vars(ConnectTry)
    /\ WF_vars(ConnectExhausted)
    /\ WF_vars(ConnectInvoke)
    /\ WF_vars(ConnectClose)

SpecConnect == Init /\ [][ConnectNext]_vars /\ ConnectFairness

----------------------------------------------------------------------------
(* Properties of the framing (SpecWire) *)

\* C1: the strings detail::recv returns are, in order and with their
\* boundaries, the payloads passed to connection::send, however ::recv
\* splits the payload bytes: what was returned so far is a prefix of what
\* was sent, everything sent has been returned once both ends are idle with
\* nothing in flight, and detail::recv fails only after a ::recv that
\* returned 0, -1 or less than the whole length prefix.
RoundTripOrder ==
    /\ Len(recvd) <= Len(sent)
    /\ \A i \in 1..Len(recvd) : recvd[i] = sent[i]
    /\ (send_pc = "idle" /\ recv_pc = "idle" /\ wire = <<>>) => recvd = sent
    /\ recv_pc = "failed" =>
         /\ recv_exc \in {"connection_closed_exception",
                          "unknown_connection_exception"}
         /\ \E ret \in recv_ret : ret < SizeofInt

\* two different payloads of two bytes arrived, one of them in two reads
RoundTripSplit ==
    /\ Len(recvd) = 2
    /\ recvd = sent
    /\ recv_short
    /\ Len(recvd[1]) = 2 /\ Len(recvd[2]) = 2
    /\ recvd[1] # recvd[2]
    /\ recvd[1][1] # recvd[1][2]

\* C2: a ::recv that returns 0, for the length prefix or inside the
\* payload, ends detail::recv with connection_closed_exception.
ClosedPeerDetection ==
    0 \in recv_ret =>
        recv_pc = "failed" /\ recv_exc = "connection_closed_exception"

\* the peer closed after a part of the payload was read
ClosedMidPayload ==
    /\ 0 \in recv_ret
    /\ recv_pc = "failed"
    /\ recv_remaining > 0
    /\ recv_data > 0

----------------------------------------------------------------------------
(* Properties of safe<T> (SpecLock) *)

InCriticalSection(u) == unit_pc[u] \in {"read", "write", "leave"}

\* C3: at most one lock<T> object is live at any time and only its owner is
\* in a critical section; a unit blocked in lock() enters its critical
\* section only from a state where no guard is live.
MutualExclusion ==
    /\ [](/\ Cardinality(guards) <= 1
          /\ \A u \in Units : InCriticalSection(u) => guards = {u})
    /\ [][\A u \in Units :
            (unit_pc[u] = "blocked" /\ InCriticalSection(u)') =>
                guards = {} /\ guards' = {u}]_vars

\* one unit waits in lock() while another has read the value and not yet
\* written it
ContendedLock ==
    \E u, v \in Units :
        /\ unit_pc[u] = "write"
        /\ unit_pc[v] = "blocked"
        /\ safe_data > 0

----------------------------------------------------------------------------
(* Properties of serve() (SpecServe) *)

\* C4: every thread serve() spawned that has started has invoked the
\* handler the caller passed to serve().
ListenerDispatch ==
    \A i \in 1..Len(threads) :
        threads[i].pc # "spawned" => threads[i].invoked

\* C5: a connection_exception leaving the handler does not end the process,
\* and close(fd) was called for every thread whose handler call has ended,
\* by a return or by an exception.
HandleClosedOnEveryExit ==
    \A i \in 1..Len(threads) :
        threads[i].pc = "exited" =>
            /\ threads[i].closed
            /\ threads[i].exit = "connection_exception" =>
                 \/ serve_pc # "terminated"
                 \/ \E j \in 1..Len(threads) :
                       threads[j].exit \notin {"none", "return",
                                               "connection_exception"}

----------------------------------------------------------------------------
(* Properties of message_parser::parse (SpecParser) *)

\* the whitespace-separated tokens of a line: the maximal runs of
\* characters that are not whitespace, from left to right
TokenStarts(line) ==
    {i \in 1..Len(line) :
        line[i] \notin Whitespace /\ (i = 1 \/ line[i - 1] \in Whitespace)}

TokenStop(line, i) ==
    CHOOSE j \in i..Len(line) :
        /\ \A k \in i..j : line[k] \notin Whitespace
        /\ j = Len(line) \/ line[j + 1] \in Whitespace

TokensOf(line) ==
    LET starts == TokenStarts(line)
        nth(k) == CHOOSE i \in starts :
                      Cardinality({j \in starts : j < i}) = k - 1
    IN  [k \in 1..Cardinality(starts) |->
            SubSeq(line, nth(k), TokenStop(line, nth(k)))]

\* the last parse was of a line that starts with the name of a command
NamesCommand ==
    /\ p_pc = "parsed"
    /\ TokensOf(p_line) # <<>>
    /\ TokensOf(p_line)[1] \in DOMAIN p_commands

ParsedCommand == p_commands[TokensOf(p_line)[1]]

TrailingTokens == Tail(TokensOf(p_line))

\* C6: parse of a line that holds the name of a command (one end() gave a
\* handler) and as many further tokens as the command has parameters throws
\* nothing and calls that handler, and only it, once with those tokens in
\* their order.
ParseSuccess ==
    (/\ NamesCommand
     /\ ParsedCommand.handler # "none"
     /\ Len(TrailingTokens) = Len(ParsedCommand.parameters))
    => /\ p_exc = NoException
       /\ p_invoked = <<[command |-> TokensOf(p_line)[1],
                         handler |-> ParsedCommand.handler,
                         args |-> TrailingTokens]>>

\* a handler was called with two different arguments taken from a line with
\* leading whitespace and runs of whitespace between the tokens
ParsedTwoArguments ==
    /\ NamesCommand
    /\ Len(p_invoked) = 1
    /\ Len(p_invoked[1].args) = 2
    /\ p_invoked[1].args[1] # p_invoked[1].args[2]
    /\ p_line[1] \in Whitespace
    /\ Cardinality(DOMAIN p_commands) = 2

\* the names between the brackets of "expected command: [n1,n2,...]"
RECURSIVE SplitCommas(_, _)
SplitCommas(chars, word) ==
    IF chars = <<>> THEN <<word>>
    ELSE IF Head(chars) = "," THEN <<word>> \o SplitCommas(Tail(chars), <<>>)
    ELSE SplitCommas(Tail(chars), Append(word, Head(chars)))

ListedNames(what) ==
    IF Len(what) >= 4 /\ what[2] = "[" /\ what[Len(what)] = "]"
      THEN SplitCommas(SubSeq(what, 3, Len(what) - 1), <<>>)
      ELSE <<>>

\* C7: parse of a line without a token, or whose first token is not the
\* name of a command, throws "expected command: ..." listing every command
\* name exactly once and nothing else, and calls no handler.
UnknownCommandRejection ==
    (p_pc = "parsed" /\ ~NamesCommand)
    => /\ p_exc.type = "parsing_exception"
       /\ Len(p_exc.what) >= 2
       /\ p_exc.what[1] = "expected command: "
       /\ LET listed == ListedNames(p_exc.what) IN
          /\ Len(listed) = Cardinality(DOMAIN p_commands)
          /\ \A name \in DOMAIN p_commands :
                Cardinality({i \in 1..Len(listed) : listed[i] = name}) = 1
       /\ p_invoked = <<>>

\* a line whose first token extends a command name was rejected by a parser
\* of two commands
UnknownCommandRejected ==
    /\ p_pc = "parsed"
    /\ TokensOf(p_line) # <<>>
    /\ TokensOf(p_line)[1] \notin DOMAIN p_commands
    /\ Cardinality(DOMAIN p_commands) = 2
    /\ p_exc.type = "parsing_exception"

\* C8: parse of a line that holds the name of a command with parameters
\* p1..pN and k < N further tokens throws "expected parameter: " with the
\* name of p(k+1), and calls no handler.
MissingParameter ==
    (/\ NamesCommand
     /\ Len(TrailingTokens) < Len(ParsedCommand.parameters))
    => /\ p_exc = parsing_exception(
                     <<"expected parameter: ">>
                       \o ParsedCommand.parameters[Len(TrailingTokens) + 1])
       /\ p_invoked = <<>>

\* the second of two differently named parameters was missing
SecondParameterMissing ==
    /\ NamesCommand
    /\ Len(ParsedCommand.parameters) = 2
    /\ ParsedCommand.parameters[1] # ParsedCommand.parameters[2]
    /\ Len(TrailingTokens) = 1
    /\ p_exc.type = "parsing_exception"

\* C9: parse of a line that holds the name of a command with N parameters
\* and more than N further tokens throws "extraneous parameter: '...'" with
\* the (N+1)-th of them, and calls no handler.
ExtraneousParameter ==
    (/\ NamesCommand
     /\ Len(TrailingTokens) > Len(ParsedCommand.parameters))
    => /\ p_exc = parsing_exception(
                     <<"extraneous parameter: '">>
                       \o TrailingTokens[Len(ParsedCommand.parameters) + 1]
                       \o <<"'">>)
       /\ p_invoked = <<>>

\* one token too many after the one parameter of a command, differing from
\* the token of the parameter
SurplusToken ==
    /\ NamesCommand
    /\ Len(ParsedCommand.parameters) = 1
    /\ Len(TrailingTokens) = 2
    /\ TrailingTokens[1] # TrailingTokens[2]
    /\ p_exc.type = "parsing_exception"

----------------------------------------------------------------------------
(* Properties of message_parser_builder (SpecParser) *)

\* the call is rejected: the assertion fails and the map is as it was
Rejected == b_pc' = "aborted" /\ b_commands' = b_commands

\* every command but `name` is as it was, and no command came or went
OthersKept(name) ==
    /\ DOMAIN b_commands' = DOMAIN b_commands
    /\ \A n \in DOMAIN b_commands \ {name} : b_commands'[n] = b_commands[n]

\* C10: command() is accepted only when no command is open and opens the
\* command it names; parameter() and end() are accepted exactly when a
\* command is open; parameter() appends to the open command's parameters
\* and leaves it open; end() sets the open command's handler and leaves no
\* command open; a call in the wrong state aborts and leaves the map as it
\* was.
BuilderStateMachine ==
    [][(b_tick' # b_tick) =>
        LET open == current_command # {}
            arg  == b_call'.arg
        IN
        /\ b_call'.op = "command" =>
             /\ open => Rejected
             /\ b_pc' = "building" =>
                  ~open /\ current_command' = {arg}
                        /\ arg \in DOMAIN b_commands'
        /\ b_call'.op = "parameter" =>
             IF ~open THEN Rejected
             ELSE /\ b_pc' = "building"
                  /\ current_command' = current_command
                  /\ OthersKept(CurrentName)
                  /\ b_commands'[CurrentName].parameters =
                       b_commands[CurrentName].parameters \o <<arg>>
                  /\ b_commands'[CurrentName].handler =
                       b_commands[CurrentName].handler
        /\ b_call'.op = "end" =>
             IF ~open THEN Rejected
             ELSE /\ b_pc' = "building"
                  /\ current_command' = {}
                  /\ OthersKept(CurrentName)
                  /\ b_commands'[CurrentName].handler = arg
                  /\ b_commands'[CurrentName].parameters =
                       b_commands[CurrentName].parameters
      ]_vars

\* command() was called while a command with two parameters was open
CommandWhileOpen ==
    /\ b_pc = "aborted"
    /\ b_call.op = "command"
    /\ current_command # {}
    /\ Len(b_commands[CurrentName].parameters) = 2
    /\ Cardinality(DOMAIN b_commands) = 2

----------------------------------------------------------------------------
(* Further properties of message_parser_builder (SpecParser) *)

\* C11: build() is accepted only when no command is open, so every command
\* of a message_parser has the handler an end() call gave it.
BuildRequiresIdle ==
    /\ (b_pc = "built" /\ b_call.op = "build") => current_command = {}
    /\ p_pc # "none" =>
         \A name \in DOMAIN p_commands : p_commands[name].handler # "none"

\* C19: command() with a name the map already holds aborts, and no
\* command() call changes or removes a command the map already holds.
DuplicateCommandRejected ==
    [][(b_tick' # b_tick /\ b_call'.op = "command") =>
        /\ b_call'.arg \in DOMAIN b_commands => Rejected
        /\ \A name \in DOMAIN b_commands :
              /\ name \in DOMAIN b_commands'
              /\ b_commands'[name] = b_commands[name]
      ]_vars

\* command() was called, with no command open, for a name whose command
\* has a parameter and a handler
DuplicateCommand ==
    /\ b_pc = "aborted"
    /\ b_call.op = "command"
    /\ current_command = {}
    /\ b_call.arg \in DOMAIN b_commands
    /\ b_commands[b_call.arg].parameters # <<>>
    /\ b_commands[b_call.arg].handler # "none"

----------------------------------------------------------------------------
(* Further properties of the framing (SpecWire) *)

\* C13: detail::recv fails only after a ::recv that returned 0 or -1; a
\* ::recv that returns some but not all of the bytes asked for, of the
\* prefix or of the payload, does not end it.
PartialReadsNonFatal ==
    recv_pc = "failed" => \E ret \in recv_ret : ret <= 0

----------------------------------------------------------------------------
(* Further properties of serve() (SpecServe) *)

InSeq(x, seq) == \E i \in 1..Len(seq) : seq[i] = x

\* resolve failed, no address was bound, or listen failed
SetupFailed(calls) ==
    \/ InSeq("getaddrinfo_fails", calls)
    \/ ~InSeq("bind_ok", calls)
    \/ InSeq("listen_fails", calls)

\* C16: once the setup has succeeded serve neither returns nor throws (only
\* the end of the process stops it); an accept call that fails spawns no
\* thread and leaves serve in its loop; a setup in which resolve, bind on
\* every address, or listen fails ends serve with
\* unknown_connection_exception before any peer is accepted.
AcceptLoop ==
    /\ [][/\ serve_pc = "accepting" =>
               serve_pc' \in {"accepting", "terminated"}
          /\ (accept_failed' /\ ~accept_failed) =>
               threads' = threads /\ serve_pc' = "accepting"
          /\ (serve_pc = "setup" /\ serve_pc' # "setup") =>
               IF SetupFailed(setup_calls')
                 THEN serve_pc' = "threw" /\ threads' = <<>>
                 ELSE serve_pc' = "accepting"
         ]_vars
    /\ [](serve_pc = "threw" => threads = <<>>)

\* after a first address that could not be bound, a second one was; an
\* accept call failed and the next one accepted a peer
AcceptedAfterFailure ==
    /\ serve_pc = "accepting"
    /\ InSeq("bind_fails", setup_calls)
    /\ \E i \in 1..Len(threads) : threads[i].retried

----------------------------------------------------------------------------
(* Further properties of sync::safe<T> (SpecLockFair) *)

----------------------------------------------------------------------------
(* Properties of connect() (SpecConnect) *)

\* C15: the loop ends in a connection exactly when it reaches an address
\* that connects, and otherwise connect throws
\* unknown_connection_exception with the handler never called; a
\* connection is followed by one call of the handler, made by connect
\* itself before it goes on; connect returns only after a handler call
\* that returned or threw a connection_exception, which never leaves
\* connect, and with every descriptor closed.
Dialer ==
    /\ [][/\ (c_pc = "loop" /\ c_pc' # "loop") =>
               IF c_res # <<>> /\ Head(c_res) = "connect_ok"
                 THEN c_pc' = "connected"
                 ELSE c_pc' = "threw"
          /\ c_pc = "connected" =>
               c_pc' = "in_handler" /\ c_invocations' = 1
          /\ c_invocations' # c_invocations => c_pc = "connected"
         ]_vars
    /\ [](/\ c_invocations <= 1
          /\ c_pc = "threw" => c_invocations = 0 /\ c_open = {}
          /\ c_pc = "returned" =>
               /\ c_invocations = 1
               /\ c_exit \in {"return", "connection_exception"}
               /\ c_open = {}
          /\ c_exit = "connection_exception" =>
               c_pc \in {"closing", "returned"})
    /\ (c_pc = "connected") ~> (c_invocations = 1)
    /\ (c_pc = "closing") ~> (c_pc = "returned" /\ c_open = {})

\* connect has returned after the handler, called on the third address
\* tried, threw a connection_exception
SwallowedOnLaterAddress ==
    /\ c_pc = "returned"
    /\ c_exit = "connection_exception"
    /\ c_sockfd = 3

----------------------------------------------------------------------------
(* Properties of connection::try_recv (SpecPoll) *)

\* C17: a try_recv whose select reports the descriptor not readable
\* returns the empty optional in that step, with the stream and the
\* receiver untouched; one whose select fails throws
\* unknown_connection_exception; one whose select reports it readable
\* runs one detail::recv to its end and returns the string it returned,
\* or passes on the exception it threw.
TryReceive ==
    [][/\ t_calls' # t_calls =>
            /\ t_ready' = 0 =>
                 /\ t_result' = Nothing /\ t_pc' = "out"
                 /\ UNCHANGED wireVars
            /\ t_ready' = -1 =>
                 /\ t_result' = Thrown("unknown_connection_exception")
                 /\ t_pc' = "out"
            /\ t_ready' = 1 => t_pc' = "receiving"
       /\ (t_pc = "receiving" /\ recvd' # recvd) =>
            Len(recvd) = t_base /\ Len(recvd') = t_base + 1
       /\ (t_pc = "receiving" /\ t_pc' = "out") =>
            IF recv_pc = "failed"
              THEN /\ t_result' = Thrown(recv_exc)
                   /\ recv_exc \in {"connection_closed_exception",
                                     "unknown_connection_exception"}
              ELSE /\ Len(recvd) = t_base + 1
                   /\ t_result' = Message(recvd[t_base + 1])
                   /\ recvd[t_base + 1] = sent[t_base + 1]
      ]_vars

\* a first try_recv returned without a message, and the second returned a
\* message two bytes long
PolledThenReceived ==
    /\ t_calls = 2
    /\ t_pc = "out"
    /\ t_base = 0
    /\ t_result.kind = "message"
    /\ Len(t_result.value) = 2

----------------------------------------------------------------------------
(* Properties of connection_iterator (SpecIter) *)

\* C18: the values the loop body has seen are the messages sent, from the
\* first on, in order and without a gap, and at most one received message
\* waits in the iterator; the loop test never finds the iterator equal to
\* end(); the iteration is over only when detail::recv has thrown a
\* connection_closed_exception or an unknown_connection_exception, and
\* then that exception has left operator++.
MessageIteration ==
    /\ [](/\ Len(yielded) <= Len(sent)
          /\ yielded = Take(sent, Len(yielded))
          /\ yielded = Take(recvd, Len(yielded))
          /\ Len(recvd) - Len(yielded) <= 1
          /\ it_pc = "ready" =>
               Len(recvd) = Len(yielded) + 1
                 /\ current_value = recvd[Len(recvd)]
          /\ it_pc # "ended"
          /\ it_pc = "propagated" =>
               /\ recv_pc = "failed"
               /\ it_exc = recv_exc
               /\ it_exc \in {"connection_closed_exception",
                               "unknown_connection_exception"})
    /\ [][(it_pc' # it_pc /\ it_pc' \in {"ended", "propagated"}) =>
            it_pc = "incrementing" /\ recv_pc = "failed"]_vars

\* the loop body saw an empty message and then a message of two bytes,
\* and the iteration ended with connection_closed_exception
IteratedUntilClosed ==
    /\ it_pc = "propagated"
    /\ it_exc = "connection_closed_exception"
    /\ Len(yielded) = 2
    /\ yielded[1] = <<>>
    /\ Len(yielded[2]) = 2

----------------------------------------------------------------------------
(* Properties of the shop server (SpecShop) *)

RECURSIVE Sum(_)
Sum(costs) == IF costs = <<>> THEN 0 ELSE Head(costs) + Sum(Tail(costs))

\* C12: a session is between shop.lock() and the end of its handler only
\* as the owner of the mutex, and the cost it is about to deduct is within
\* the balance; so the balance is the starting balance minus the costs
\* deducted, with no wrap-around, and no two purchases that succeeded cost
\* more than the starting balance together.
SerializedPurchases ==
    shop_pc # "unloaded" =>
        /\ \A s \in Sessions :
              /\ s_pc[s] \in {"locked", "check", "deduct"} => mtx = {s}
              /\ s_pc[s] = "deduct" => s_cost[s] <= users[1].balance
        /\ Sum(purchases) <= StartBalance
        /\ users[1].balance = StartBalance - Sum(purchases)
        /\ \A i, j \in 1..Len(purchases) :
              i # j => purchases[i] + purchases[j] <= StartBalance

\* two sessions have handled a buy of one item each: one was told that
\* the balance is insufficient, the other had its cost of 2 deducted
SecondPurchaseRefused ==
    \E s, t \in Sessions :
        /\ s # t
        /\ s_pc[s] = "sent" /\ s_pc[t] = "sent"
        /\ s_sent[s] = <<FrameOf(<<"insufficient balance">>)>>
        /\ s_cost[s] = 2
        /\ s_cost[t] = 2
        /\ purchases = <<2>>

\* a frame a receiver takes for a message: the prefix is the length of the
\* payload
ValidMessage(frame) == frame.prefix = Len(frame.payload)

\* C20: handling a message never ends the server; a session has sent at
\* most one frame since it received the message it is handling, and when
\* it goes on to the next message it has sent exactly one, which is a
\* message; for a message that parse rejected that one message is the
\* text of the parsing_exception.
Lockstep ==
    /\ shop_pc # "aborted"
    /\ \A s \in Sessions :
          /\ Len(s_sent[s]) <= 1
          /\ s_pc[s] = "sent" =>
                /\ Len(s_sent[s]) = 1
                /\ ValidMessage(s_sent[s][1])
                /\ s_call[s] = <<>> =>
                      \E cmd_names \in get_map_keys(ShopParser) :
                          s_sent[s][1].payload =
                            ParseResult(ShopParser, cmd_names,
                                        s_msg[s]).exc.what

----------------------------------------------------------------------------
(* Properties of detail::recv with a raw peer (SpecRaw) *)

\* C21: whatever the peer has written, a detail::recv that fails has
\* thrown connection_closed_exception or unknown_connection_exception, and
\* the failure has not gone beyond the session: std::terminate is never
\* called.
ReceiveFailuresContained ==
    /\ recv_pc = "failed" =>
         recv_exc \in {"connection_closed_exception",
                       "unknown_connection_exception"}
    /\ raw_session # "terminated"

=============================================================================
